---------------------------- MODULE Spec2Model ----------------------------
(***************************************************************************)
(* The postcard deserializer (src/de.rs) as a state machine.               *)
(*                                                                         *)
(* One top-level decode call is one behaviour: an entry point creates a    *)
(* Deserializer over the input slice, and the value-model framework then   *)
(* drives the Deserializer's trait methods (deserialize_*, SeqAccess,      *)
(* EnumAccess, VariantAccess) one call at a time.  Each trait method is    *)
(* one action.  The framework's pending calls (the visitors that are in    *)
(* the middle of visit_seq, visit_some, visit_enum ...) are the frames of  *)
(* `stack`.                                                                *)
(*                                                                         *)
(* Bytes are 0..255.  A usize is 64 bits wide and is kept as four 16-bit   *)
(* limbs, least significant first, so that the shifts of try_take_varint   *)
(* lose exactly the bits the machine word loses.  Wide fixed-width         *)
(* numbers (32 and 64 bits) are kept as limbs in the same way.             *)
(***************************************************************************)
EXTENDS Integers, Sequences, FiniteSets, TLC

\* ------------------------------------------------------------------------
\* Machine words
\* ------------------------------------------------------------------------

\* usize is 64 bits wide on the modelled target (the 0xFFFF_FFFF test of
\* variant_seed is only meaningful there).
UsizeBits == 64

LimbBase == 2^16

NLimbs == UsizeBits \div 16

Byte == 0..255

\* No call is followed for more than MaxSteps reads and pulls.
MaxSteps == 300

Zero(n) == [i \in 1..n |-> 0]

\* The usize whose value is the small number n (n < 2^31).
ToUsize(n) ==
  [i \in 1..NLimbs |->
     IF i = 1 THEN n % LimbBase
     ELSE IF i = 2 THEN (n \div LimbBase) % LimbBase
     ELSE 0]

\* A usize is small when it fits two limbs less one bit: then it is a
\* number TLC can hold, and SmallVal is that number.
IsSmall(u) == /\ \A i \in 3..Len(u) : u[i] = 0
              /\ u[2] < 32768

SmallVal(u) == u[1] + LimbBase * u[2]

\* out <<= 7 on a word of Len(u) limbs: the bits shifted out at the top are
\* lost, as with Rust's << on usize.
\* A shift that drops the bits carried from one limb into the next.
Shl7NoCarry(u) == [i \in 1..Len(u) |-> (u[i] * 128) % LimbBase]

Shl7(u) ==
  [i \in 1..Len(u) |->
     ((u[i] * 128) % LimbBase) + (IF i = 1 THEN 0 ELSE u[i-1] \div 512)]

\* out |= (byte & 0x7F) as usize, for an out whose low seven bits are zero
\* (it has just been shifted).
OrLow7(u, byte) == [u EXCEPT ![1] = (u[1] - (u[1] % 128)) + (byte % 128)]

\* self.len > 0
UsizeIsZero(u) == \A i \in 1..Len(u) : u[i] = 0

\* self.len -= 1 (only called on a non-zero len).
RECURSIVE UsizeDecFrom(_, _)
UsizeDecFrom(u, i) ==
  IF i > Len(u) THEN u
  ELSE IF u[i] > 0 THEN [u EXCEPT ![i] = u[i] - 1]
  ELSE UsizeDecFrom([u EXCEPT ![i] = LimbBase - 1], i + 1)

\* A decrement that leaves the number as it was.
UsizeDecNot(u) == u

UsizeDec(u) == UsizeDecFrom(u, 1)

\* A comparison that looks at the top 16 bits only.
ExceedsU32TopLimb(u) == u[Len(u)] # 0

\* varint > 0xFFFF_FFFF
ExceedsU32(u) == \E i \in 3..Len(u) : u[i] # 0

\* varint as u32
AsU32(u) == <<u[1], u[2]>>

\* self.input.len() >= ct, for a slice of length n.
LenAtLeast(n, ct) == IsSmall(ct) /\ n >= SmallVal(ct)

\* ------------------------------------------------------------------------
\* Results
\* ------------------------------------------------------------------------

\* Result<T>: Ok(val) leaving `rest` as the Deserializer's input, or Err(err).
\* `read` is the number of input bytes the operation looked at.
Ok(v, rest, read) == [ok |-> TRUE, err |-> "none", val |-> <<v>>, rest |-> rest, read |-> read]

Err(e, rest, read) == [ok |-> FALSE, err |-> e, val |-> <<>>, rest |-> rest, read |-> read]

\* ------------------------------------------------------------------------
\* Deserializer: the two parsing functions
\* ------------------------------------------------------------------------

\* A take that keeps the wrong half of the split: Ok(b) with self.input = a.
try_take_n_swapped(input, ct) ==
  IF LenAtLeast(Len(input), ct)
  THEN Ok(SubSeq(input, SmallVal(ct) + 1, Len(input)),
          SubSeq(input, 1, SmallVal(ct)), SmallVal(ct))
  ELSE Err("DeserializeUnexpectedEnd", input, 0)

\* Deserializer::try_take_n(ct), ct a usize: Ok(a) with self.input = b, or
\* DeserializeUnexpectedEnd with self.input untouched.
try_take_n(input, ct) ==
  IF LenAtLeast(Len(input), ct)
  THEN Ok(SubSeq(input, 1, SmallVal(ct)),
          SubSeq(input, SmallVal(ct) + 1, Len(input)), SmallVal(ct))
  ELSE Err("DeserializeUnexpectedEnd", input, 0)

\* VarintUsize::varint_usize_max(): the bytes a usize needs at 7 bits a byte.
varint_usize_max == (UsizeBits + 7) \div 7

\* for byte in a.iter().rev() { out <<= 7; out |= (byte & 0x7F) as usize; }
\* over the first n bytes of a, from the last byte down to the first.
RECURSIVE VarintFold(_, _, _)
VarintFold(a, n, out) ==
  IF n = 0 THEN out
  ELSE VarintFold(a, n - 1, OrLow7(Shl7(out), a[n]))

\* The loop of try_take_varint with one iteration too many.
RECURSIVE VarintLoopOneMore(_, _)
VarintLoopOneMore(input, i) ==
  IF i > varint_usize_max THEN Err("DeserializeBadVarint", input, i)
  ELSE IF i >= Len(input) THEN Err("DeserializeUnexpectedEnd", input, i)
  ELSE IF input[i + 1] \div 128 = 0
       THEN Ok(VarintFold(input, i + 1, Zero(NLimbs)),
               SubSeq(input, i + 2, Len(input)), i + 1)
       ELSE VarintLoopOneMore(input, i + 1)

\* The loop of try_take_varint, refusing a last group that does not fit.
RECURSIVE VarintLoopChecked(_, _)
VarintLoopChecked(input, i) ==
  IF i >= varint_usize_max THEN Err("DeserializeBadVarint", input, i)
  ELSE IF i >= Len(input) THEN Err("DeserializeUnexpectedEnd", input, i)
  ELSE IF input[i + 1] \div 128 = 0
       THEN IF i + 1 = varint_usize_max /\ input[i + 1] > 1
            THEN Err("DeserializeBadVarint", input, i + 1)
            ELSE Ok(VarintFold(input, i + 1, Zero(NLimbs)),
                    SubSeq(input, i + 2, Len(input)), i + 1)
       ELSE VarintLoopChecked(input, i + 1)

\* The loop of try_take_varint from index i on (0-based, as in the source).
RECURSIVE VarintLoop(_, _)
VarintLoop(input, i) ==
  IF i >= varint_usize_max THEN Err("DeserializeBadVarint", input, i)
  ELSE IF i >= Len(input) THEN Err("DeserializeUnexpectedEnd", input, i)
  ELSE IF input[i + 1] \div 128 = 0
       THEN Ok(VarintFold(input, i + 1, Zero(NLimbs)),
               SubSeq(input, i + 2, Len(input)), i + 1)
       ELSE VarintLoop(input, i + 1)

\* Deserializer::try_take_varint()
try_take_varint(input) == VarintLoop(input, 0)

\* ------------------------------------------------------------------------
\* Fixed-width numbers
\* ------------------------------------------------------------------------

\* uN::from_le_bytes / iN::from_le_bytes / LittleEndian::read_fN for the
\* widths kept as limbs: limb k is bytes 2k-1 and 2k, low byte first.
LimbsFromLe(buf) ==
  [k \in 1..(Len(buf) \div 2) |-> buf[2 * k - 1] + 256 * buf[2 * k]]

\* u8, u16 and i8, i16 are numbers.
U16FromLe(buf) == buf[1] + 256 * buf[2]

I8FromLe(buf) == IF buf[1] >= 128 THEN buf[1] - 256 ELSE buf[1]

I16FromLe(buf) ==
  IF U16FromLe(buf) >= 32768 THEN U16FromLe(buf) - LimbBase ELSE U16FromLe(buf)

\* core::char::from_u32 of the u32 with limbs w: Some(scalar) unless w is a
\* surrogate or above 0x10FFFF.  <<c>> is Some(c), <<>> is None.
CharFromU32(w) ==
  IF w[2] = 0
  THEN (IF w[1] >= 55296 /\ w[1] <= 57343 THEN <<>> ELSE <<w[1]>>)
  ELSE IF w[2] <= 16 THEN <<w[2] * LimbBase + w[1]>>
  ELSE <<>>

\* core::str::from_utf8(bytes).is_ok(): the well-formed byte sequences of
\* the Unicode standard (table 3-7), from index i on.
RECURSIVE Utf8From(_, _)
Utf8From(b, i) ==
  LET n == Len(b)
      Cont(j) == j <= n /\ b[j] >= 128 /\ b[j] <= 191
      In(j, lo, hi) == j <= n /\ b[j] >= lo /\ b[j] <= hi
  IN IF i > n THEN TRUE
     ELSE IF b[i] <= 127 THEN Utf8From(b, i + 1)
     ELSE IF b[i] >= 194 /\ b[i] <= 223 THEN Cont(i + 1) /\ Utf8From(b, i + 2)
     ELSE IF b[i] = 224
          THEN In(i + 1, 160, 191) /\ Cont(i + 2) /\ Utf8From(b, i + 3)
     ELSE IF b[i] = 237
          THEN In(i + 1, 128, 159) /\ Cont(i + 2) /\ Utf8From(b, i + 3)
     ELSE IF b[i] >= 225 /\ b[i] <= 239
          THEN Cont(i + 1) /\ Cont(i + 2) /\ Utf8From(b, i + 3)
     ELSE IF b[i] = 240
          THEN In(i + 1, 144, 191) /\ Cont(i + 2) /\ Cont(i + 3) /\ Utf8From(b, i + 4)
     ELSE IF b[i] >= 241 /\ b[i] <= 243
          THEN Cont(i + 1) /\ Cont(i + 2) /\ Cont(i + 3) /\ Utf8From(b, i + 4)
     ELSE IF b[i] = 244
          THEN In(i + 1, 128, 143) /\ Cont(i + 2) /\ Cont(i + 3) /\ Utf8From(b, i + 4)
     ELSE FALSE

from_utf8_ok(bytes) == Utf8From(bytes, 1)

\* ------------------------------------------------------------------------
\* Value shapes
\* ------------------------------------------------------------------------
\* A shape is a tuple whose first element names the kind:
\*   <<"bool">> <<"u8">> ... <<"str">> <<"bytes">> <<"unit">> <<"unit_struct">>
\*   <<"option", T>> <<"newtype_struct", T>> <<"seq", T>>
\*   <<"tuple", <<T1, ..>>>> <<"tuple_struct", <<T1, ..>>>> <<"struct", <<T1, ..>>>>
\*   <<"enum", <<V1, ..>>>> with variants <<"unit_variant">>,
\*   <<"newtype_variant", T>>, <<"tuple_variant", <<T1, ..>>>>,
\*   <<"struct_variant", <<T1, ..>>>>
\*   <<"any">> <<"map">> <<"identifier">> <<"ignored_any">>
\* A value of a shape: a number or limbs for the numbers, TRUE/FALSE, the
\* bytes of a string or byte buffer, <<>> for unit and for an absent option,
\* <<x>> for a present one, the tuple of the elements for the composites,
\* <<ordinal, payload>> for an enum.

\* The width in bytes of the fixed-width kinds.
Width(tag) ==
  CASE tag \in {"bool", "u8", "i8"} -> 1
    [] tag \in {"u16", "i16"} -> 2
    [] tag \in {"u32", "i32", "f32", "char"} -> 4
    [] tag \in {"u64", "i64", "f64"} -> 8

\* ------------------------------------------------------------------------
\* Serializer (crate::ser and crate::varint, as the specification states
\* them: sections 4.1 to 4.3)
\* ------------------------------------------------------------------------

\* n >> 7
Shr7(u) ==
  [i \in 1..Len(u) |->
     (u[i] \div 128) + 512 * (IF i < Len(u) THEN u[i + 1] % 128 ELSE 0)]

\* The varint of n: 7-bit groups, least significant first, the high bit set
\* on every byte but the last.
RECURSIVE EncodeVarint(_)
EncodeVarint(u) ==
  IF UsizeIsZero(Shr7(u)) THEN <<u[1] % 128>>
  ELSE <<128 + (u[1] % 128)>> \o EncodeVarint(Shr7(u))

\* to_le_bytes of a number kept as limbs.
RECURSIVE LimbsToLe(_)
LimbsToLe(w) ==
  IF w = <<>> THEN <<>>
  ELSE <<w[1] % 256, w[1] \div 256>> \o LimbsToLe(Tail(w))

RECURSIVE Encode(_, _)
EncodeAll(shapes, vs) ==
  LET RECURSIVE Cat(_)
      Cat(i) == IF i > Len(shapes) THEN <<>>
                ELSE Encode(shapes[i], vs[i]) \o Cat(i + 1)
  IN Cat(1)

EncodeEach(shape, vs) ==
  LET RECURSIVE Cat(_)
      Cat(i) == IF i > Len(vs) THEN <<>>
                ELSE Encode(shape, vs[i]) \o Cat(i + 1)
  IN Cat(1)

Encode(shape, v) ==
  LET tag == shape[1] IN
  CASE tag = "bool" -> <<IF v THEN 1 ELSE 0>>
    [] tag = "u8" -> <<v>>
    [] tag = "i8" -> <<(v + 256) % 256>>
    [] tag = "u16" -> <<v % 256, v \div 256>>
    [] tag = "i16" -> <<((v + LimbBase) % LimbBase) % 256, ((v + LimbBase) % LimbBase) \div 256>>
    [] tag \in {"u32", "i32", "f32", "u64", "i64", "f64"} -> LimbsToLe(v)
    [] tag = "char" -> LimbsToLe(<<v % LimbBase, v \div LimbBase>>)
    [] tag \in {"str", "string", "bytes", "byte_buf"} ->
         EncodeVarint(ToUsize(Len(v))) \o v
    [] tag = "option" -> IF v = <<>> THEN <<0>> ELSE <<1>> \o Encode(shape[2], v[1])
    [] tag \in {"unit", "unit_struct"} -> <<>>
    [] tag = "newtype_struct" -> Encode(shape[2], v)
    [] tag = "seq" -> EncodeVarint(ToUsize(Len(v))) \o EncodeEach(shape[2], v)
    [] tag \in {"tuple", "tuple_struct", "struct"} -> EncodeAll(shape[2], v)
    [] tag = "enum" ->
         LET var == shape[2][v[1] + 1] IN
         EncodeVarint(ToUsize(v[1])) \o
           (CASE var[1] = "unit_variant" -> <<>>
              [] var[1] = "newtype_variant" -> Encode(var[2], v[2])
              [] var[1] \in {"tuple_variant", "struct_variant"} -> EncodeAll(var[2], v[2]))

\* ------------------------------------------------------------------------
\* State
\* ------------------------------------------------------------------------
VARIABLES
  tc,      \* the call under study: what the caller passed and what it expects
  entry,   \* the entry point called ("none" before the call)
  calls,   \* the calls of an entry point made on the caller's buffer so far
  buf,     \* the caller's slice s (destuffed in place by the cobs entry points)
  sz,      \* the length of the destuffed frame at the front of buf
  input,   \* Deserializer.input: the bytes not yet consumed
  stack,   \* the framework's pending calls, innermost first
  pc,      \* "start" before the call, "run" during it, "done" after it
  result,  \* what the entry point returned
  steps,   \* the primitive reads and element pulls made so far
  last     \* the last trait method called and what its reads returned

vars == <<tc, entry, calls, buf, sz, input, stack, pc, result, steps, last>>

NoRead == [ok |-> FALSE, err |-> "noread", val |-> <<>>, rest |-> <<>>, read |-> 0]

NoResult == [ok |-> FALSE, err |-> "pending", val |-> <<>>, rest |-> <<>>]

\* ------------------------------------------------------------------------
\* The framework's side: visitors and what they do with a value
\* ------------------------------------------------------------------------

\* T::deserialize(&mut deserializer) is about to be called for shape s.
De(s) == [k |-> "de", s |-> s]

\* struct SeqAccess { deserializer, len } in the hands of a visitor's
\* visit_seq.  vis = "seq": the visitor of a sequence, which pulls until it
\* is told there are no more elements; vis = "tuple": the visitor of a
\* tuple, tuple struct or struct of Len(elems) fields, which pulls one
\* element per field and treats a missing one as an error; vis = "again":
\* a visitor of a sequence that, told there are no more elements, asks
\* again, ExtraPulls times.  n is the len the access was made with, pulls
\* the pulls that found len > 0 and nones the pulls that found it 0.
SeqAccess(len, vis, elems) ==
  [k |-> "seq", len |-> len, vis |-> vis, elems |-> elems, acc |-> <<>>,
   n |-> len, pulls |-> 0, nones |-> 0]

\* visit_some, visit_newtype_struct, and the variant built by visit_enum.
WrapFrame(c, ord) == [k |-> "wrap", c |-> c, ord |-> ord]

Wrap(f, v) ==
  CASE f.c = "some" -> <<v>>
    [] f.c = "newtype" -> v
    [] f.c = "variant" -> <<f.ord, v>>

\* A call returned Ok(v) to the pending calls stk: wrappers return at once,
\* a tuple visitor returns when it has all its fields, and a SeqAccess with
\* a visitor that wants more stays for the next pull.
RECURSIVE Deliver(_, _)
Deliver(stk, v) ==
  IF stk = <<>> THEN [stack |-> <<>>, done |-> TRUE, val |-> <<v>>]
  ELSE LET f == stk[1] IN
       IF f.k = "wrap" THEN Deliver(Tail(stk), Wrap(f, v))
       ELSE LET acc == Append(f.acc, v) IN
            IF f.vis = "tuple" /\ Len(acc) = Len(f.elems)
            THEN Deliver(Tail(stk), acc)
            ELSE [stack |-> <<[f EXCEPT !.acc = acc]>> \o Tail(stk),
                  done |-> FALSE, val |-> <<>>]

\* ------------------------------------------------------------------------
\* Entry points
\* ------------------------------------------------------------------------

\* What the entry point returns once T::deserialize returned Ok(t) and left
\* inp as the Deserializer's input.
\* from_bytes: Ok(t).  take_from_bytes: Ok((t, deserializer.input)).
from_bytes_ret(t, inp) == [ok |-> TRUE, err |-> "none", val |-> <<t>>, rest |-> <<>>]

take_from_bytes_ret(t, inp) == [ok |-> TRUE, err |-> "none", val |-> <<t>>, rest |-> inp]

\* take_from_bytes_cobs: Ok((t, unused)), unused the buffer from sz on.
take_from_bytes_cobs_ret(t, b, n) ==
  [ok |-> TRUE, err |-> "none", val |-> <<t>>, rest |-> SubSeq(b, n + 1, Len(b))]

EntryRet(t, inp) ==
  CASE entry \in {"from_bytes", "from_bytes_cobs"} -> from_bytes_ret(t, inp)
    [] entry = "take_from_bytes" -> take_from_bytes_ret(t, inp)
    [] entry = "take_from_bytes_cobs" -> take_from_bytes_cobs_ret(t, buf, sz)

\* The `?` of every handler: the error ends the whole call.
Fail(e, inp, n, l) ==
  /\ pc' = "done"
  /\ stack' = <<>>
  /\ input' = inp
  /\ result' = [ok |-> FALSE, err |-> e, val |-> <<>>, rest |-> <<>>]
  /\ steps' = steps + n
  /\ last' = l
  /\ UNCHANGED <<tc, entry, calls, buf, sz>>

\* A handler returned Ok(v) to the calls pending above it (stk), leaving inp.
Yield(v, stk, inp, n, l) ==
  LET d == Deliver(stk, v) IN
  /\ stack' = d.stack
  /\ input' = inp
  /\ pc' = IF d.done THEN "done" ELSE "run"
  /\ result' = IF d.done THEN EntryRet(d.val[1], inp) ELSE result
  /\ steps' = steps + n
  /\ last' = l
  /\ UNCHANGED <<tc, entry, calls, buf, sz>>

\* A handler handed the Deserializer on to the calls stk.
Goto(stk, inp, n, l) ==
  /\ stack' = stk
  /\ input' = inp
  /\ pc' = "run"
  /\ result' = result
  /\ steps' = steps + n
  /\ last' = l
  /\ UNCHANGED <<tc, entry, calls, buf, sz>>

Last(op, vi, tn) == [op |-> op, before |-> input, vi |-> vi, tn |-> tn]

\* cobs::decode_in_place(buff): the frame is destuffed towards the front of
\* the buffer.  r and w are read_idx and write_idx.
RECURSIVE DecodeInPlaceLoop(_, _, _)
DecodeInPlaceLoop(b, r, w) ==
  IF r >= Len(b) THEN [ok |-> TRUE, buf |-> b, sz |-> w]
  ELSE LET code == b[r + 1]
           n == IF code = 0 THEN 0 ELSE code - 1
       IN IF r + code > Len(b) /\ code # 1 THEN [ok |-> FALSE, buf |-> b, sz |-> 0]
          ELSE LET copied == [i \in 1..Len(b) |->
                                IF i > w /\ i <= w + n THEN b[(r + 1) + (i - w)] ELSE b[i]]
                   r2 == r + 1 + n
                   w2 == w + n
               IN IF code # 255 /\ r2 < Len(b)
                  THEN DecodeInPlaceLoop([copied EXCEPT ![w2 + 1] = 0], r2, w2 + 1)
                  ELSE DecodeInPlaceLoop(copied, r2, w2)

decode_in_place(b) == DecodeInPlaceLoop(b, 0, 0)

\* Deserializer::from_bytes(input) followed by the call of T::deserialize.
StartDecode(e, b, n, inp) ==
  /\ entry' = e
  /\ buf' = b
  /\ sz' = n
  /\ input' = inp
  /\ stack' = <<De(tc.shape)>>
  /\ pc' = "run"
  /\ calls' = calls + 1
  /\ result' = NoResult
  /\ steps' = 0
  /\ last' = [op |-> e, before |-> inp, vi |-> NoRead, tn |-> NoRead]
  /\ UNCHANGED tc

\* The slice from_bytes_cobs hands to from_bytes: &s[..sz].
cobs_used(b, n) == SubSeq(b, 1, n)

\* pub fn from_bytes(s)
FromBytes ==
  /\ pc = "start"
  /\ "from_bytes" \in tc.entries
  /\ StartDecode("from_bytes", buf, Len(buf), buf)

\* pub fn take_from_bytes(s)
TakeFromBytes ==
  /\ pc = "start"
  /\ "take_from_bytes" \in tc.entries
  /\ StartDecode("take_from_bytes", buf, Len(buf), buf)

BadEncoding(e) ==
  /\ entry' = e
  /\ pc' = "done"
  /\ calls' = calls + 1
  /\ result' = [ok |-> FALSE, err |-> "DeserializeBadEncoding", val |-> <<>>, rest |-> <<>>]
  /\ last' = [op |-> e, before |-> input, vi |-> NoRead, tn |-> NoRead]
  /\ UNCHANGED <<tc, buf, sz, input, stack, steps>>

\* pub fn from_bytes_cobs(s)
FromBytesCobs ==
  /\ pc = "start"
  /\ "from_bytes_cobs" \in tc.entries
  /\ LET r == decode_in_place(buf) IN
     IF r.ok
     THEN StartDecode("from_bytes_cobs", r.buf, r.sz, cobs_used(r.buf, r.sz))
     ELSE BadEncoding("from_bytes_cobs")

\* The caller of take_from_bytes_cobs reads on: it may call again, on the
\* remainder the last call returned, while it expects more frames.
ReadsOn ==
  /\ pc = "done"
  /\ entry = "take_from_bytes_cobs"
  /\ result.ok
  /\ calls <= Len(tc.more)

\* pub fn take_from_bytes_cobs(s)
TakeFromBytesCobs ==
  /\ pc = "start" \/ ReadsOn
  /\ "take_from_bytes_cobs" \in tc.entries
  /\ LET s == IF pc = "start" THEN buf ELSE result.rest
         r == decode_in_place(s)
     IN IF r.ok
        THEN StartDecode("take_from_bytes_cobs", r.buf, r.sz, cobs_used(r.buf, r.sz))
        ELSE BadEncoding("take_from_bytes_cobs")

\* ------------------------------------------------------------------------
\* impl de::Deserializer for &mut Deserializer
\* ------------------------------------------------------------------------

\* The framework is about to call the deserialize_* method of kind `tag`.
Called(tag) ==
  /\ pc = "run"
  /\ steps < MaxSteps
  /\ stack # <<>>
  /\ stack[1].k = "de"
  /\ stack[1].s[1] = tag

\* self.try_take_n(width)? and the visit of the number made of the bytes.
TakeFixed(tag, conv(_)) ==
  LET r == try_take_n(input, ToUsize(Width(tag)))
      l == Last(tag, NoRead, r)
  IN IF r.ok THEN Yield(conv(r.val[1]), Tail(stack), r.rest, 1, l)
     ELSE Fail(r.err, r.rest, 1, l)

\* A refusal that looks at the next byte first.
UnsupportedAfterPeek(tag, e) ==
  LET r == try_take_n(input, ToUsize(1)) IN
  Fail(e, r.rest, 0, Last(tag, NoRead, NoRead))

Unsupported(tag, e) == Fail(e, input, 0, Last(tag, NoRead, NoRead))

deserialize_any ==
  /\ Called("any")
  /\ Unsupported("any", "WontImplement")

deserialize_bool ==
  /\ Called("bool")
  /\ LET r == try_take_n(input, ToUsize(1))
         l == Last("bool", NoRead, r)
     IN IF ~r.ok THEN Fail(r.err, r.rest, 1, l)
        ELSE IF r.val[1][1] = 0 THEN Yield(FALSE, Tail(stack), r.rest, 1, l)
        ELSE IF r.val[1][1] = 1 THEN Yield(TRUE, Tail(stack), r.rest, 1, l)
        ELSE Fail("DeserializeBadBool", r.rest, 1, l)

deserialize_i8 ==
  /\ Called("i8")
  /\ TakeFixed("i8", I8FromLe)

deserialize_i16 ==
  /\ Called("i16")
  /\ TakeFixed("i16", I16FromLe)

deserialize_i32 ==
  /\ Called("i32")
  /\ TakeFixed("i32", LimbsFromLe)

deserialize_i64 ==
  /\ Called("i64")
  /\ TakeFixed("i64", LimbsFromLe)

deserialize_u8 ==
  /\ Called("u8")
  /\ TakeFixed("u8", Head)

deserialize_u16 ==
  /\ Called("u16")
  /\ TakeFixed("u16", U16FromLe)

deserialize_u32 ==
  /\ Called("u32")
  /\ TakeFixed("u32", LimbsFromLe)

deserialize_u64 ==
  /\ Called("u64")
  /\ TakeFixed("u64", LimbsFromLe)

deserialize_f32 ==
  /\ Called("f32")
  /\ TakeFixed("f32", LimbsFromLe)

deserialize_f64 ==
  /\ Called("f64")
  /\ TakeFixed("f64", LimbsFromLe)

deserialize_char ==
  /\ Called("char")
  /\ LET r == try_take_n(input, ToUsize(4))
         l == Last("char", NoRead, r)
     IN IF ~r.ok THEN Fail(r.err, r.rest, 1, l)
        ELSE LET c == CharFromU32(LimbsFromLe(r.val[1])) IN
             IF c = <<>> THEN Fail("DeserializeBadChar", r.rest, 1, l)
             ELSE Yield(c[1], Tail(stack), r.rest, 1, l)

\* A string decode that validates the bytes left before it checks the length.
StrBodyUtf8First(tag) ==
  LET v == try_take_varint(input) IN
  IF ~v.ok THEN Fail(v.err, v.rest, 1, Last(tag, v, NoRead))
  ELSE LET r == try_take_n(v.rest, v.val[1])
           l == Last(tag, v, r)
       IN IF ~from_utf8_ok(IF r.ok THEN r.val[1] ELSE v.rest)
          THEN Fail("DeserializeBadUtf8", r.rest, 2, l)
          ELSE IF ~r.ok THEN Fail(r.err, r.rest, 2, l)
          ELSE Yield(r.val[1], Tail(stack), r.rest, 2, l)

\* deserialize_str, also reached through deserialize_string.
StrBody(tag) ==
  LET v == try_take_varint(input) IN
  IF ~v.ok THEN Fail(v.err, v.rest, 1, Last(tag, v, NoRead))
  ELSE LET r == try_take_n(v.rest, v.val[1])
           l == Last(tag, v, r)
       IN IF ~r.ok THEN Fail(r.err, r.rest, 2, l)
          ELSE IF ~from_utf8_ok(r.val[1]) THEN Fail("DeserializeBadUtf8", r.rest, 2, l)
          ELSE Yield(r.val[1], Tail(stack), r.rest, 2, l)

deserialize_str ==
  /\ Called("str")
  /\ StrBody("str")

deserialize_string ==
  /\ Called("string")
  /\ StrBody("string")

\* deserialize_bytes, also reached through deserialize_byte_buf.
BytesBody(tag) ==
  LET v == try_take_varint(input) IN
  IF ~v.ok THEN Fail(v.err, v.rest, 1, Last(tag, v, NoRead))
  ELSE LET r == try_take_n(v.rest, v.val[1])
           l == Last(tag, v, r)
       IN IF ~r.ok THEN Fail(r.err, r.rest, 2, l)
          ELSE Yield(r.val[1], Tail(stack), r.rest, 2, l)

deserialize_bytes ==
  /\ Called("bytes")
  /\ BytesBody("bytes")

deserialize_byte_buf ==
  /\ Called("byte_buf")
  /\ BytesBody("byte_buf")

\* An option decode that takes every byte but 0 for "present".
deserialize_option_lenient ==
  /\ Called("option")
  /\ LET r == try_take_n(input, ToUsize(1))
         l == Last("option", NoRead, r)
     IN IF ~r.ok THEN Fail(r.err, r.rest, 1, l)
        ELSE IF r.val[1][1] = 0 THEN Yield(<<>>, Tail(stack), r.rest, 1, l)
        ELSE Goto(<<De(stack[1].s[2]), WrapFrame("some", 0)>> \o Tail(stack),
                  r.rest, 1, l)

deserialize_option ==
  /\ Called("option")
  /\ LET r == try_take_n(input, ToUsize(1))
         l == Last("option", NoRead, r)
     IN IF ~r.ok THEN Fail(r.err, r.rest, 1, l)
        ELSE IF r.val[1][1] = 0 THEN Yield(<<>>, Tail(stack), r.rest, 1, l)
        ELSE IF r.val[1][1] = 1
             THEN Goto(<<De(stack[1].s[2]), WrapFrame("some", 0)>> \o Tail(stack),
                       r.rest, 1, l)
        ELSE Fail("DeserializeBadOption", r.rest, 1, l)

deserialize_unit ==
  /\ Called("unit")
  /\ Yield(<<>>, Tail(stack), input, 0, Last("unit", NoRead, NoRead))

deserialize_unit_struct ==
  /\ Called("unit_struct")
  /\ Yield(<<>>, Tail(stack), input, 0, Last("unit_struct", NoRead, NoRead))

deserialize_newtype_struct ==
  /\ Called("newtype_struct")
  /\ Goto(<<De(stack[1].s[2]), WrapFrame("newtype", 0)>> \o Tail(stack),
          input, 0, Last("newtype_struct", NoRead, NoRead))

\* visitor.visit_seq(SeqAccess { deserializer: self, len }): a visitor with
\* no field to fill returns at once, any other makes its first pull.
VisitSeq(len, vis, elems, stk, inp, n, l) ==
  IF vis = "tuple" /\ elems = <<>>
  THEN Yield(<<>>, stk, inp, n, l)
  ELSE Goto(<<SeqAccess(len, vis, elems)>> \o stk, inp, n, l)

\* The body of deserialize_seq, for the visitor vis.
SeqBody(tag, vis, elems) ==
  LET v == try_take_varint(input)
      l == Last(tag, v, NoRead)
  IN IF ~v.ok THEN Fail(v.err, v.rest, 1, l)
     ELSE VisitSeq(v.val[1], vis, elems, Tail(stack), v.rest, 1, l)

\* The body of deserialize_tuple(len, visitor).
TupleBody(tag, elems, stk) ==
  VisitSeq(ToUsize(Len(elems)), "tuple", elems, stk, input, 0, Last(tag, NoRead, NoRead))

deserialize_seq ==
  /\ Called("seq")
  /\ SeqBody("seq", IF Len(stack[1].s) > 2 THEN stack[1].s[3] ELSE "seq",
             <<stack[1].s[2]>>)

deserialize_tuple ==
  /\ Called("tuple")
  /\ TupleBody("tuple", stack[1].s[2], Tail(stack))

tuple_struct_body(tag, elems) == SeqBody(tag, "tuple", elems)

deserialize_tuple_struct ==
  /\ Called("tuple_struct")
  /\ tuple_struct_body("tuple_struct", stack[1].s[2])

deserialize_map ==
  /\ Called("map")
  /\ Unsupported("map", "NotYetImplemented")

struct_body(tag, elems) == TupleBody(tag, elems, Tail(stack))

deserialize_struct ==
  /\ Called("struct")
  /\ struct_body("struct", stack[1].s[2])

\* visitor.visit_enum(self): the visitor will ask for the variant.
deserialize_enum ==
  /\ Called("enum")
  /\ Goto(<<[k |-> "enum", variants |-> stack[1].s[2]]>> \o Tail(stack),
          input, 0, Last("enum", NoRead, NoRead))

deserialize_identifier ==
  /\ Called("identifier")
  /\ Unsupported("identifier", "WontImplement")

deserialize_ignored_any ==
  /\ Called("ignored_any")
  /\ Unsupported("ignored_any", "WontImplement")

\* ------------------------------------------------------------------------
\* impl SeqAccess
\* ------------------------------------------------------------------------

\* The shape the visitor asks next_element for.
NextShape(f) == IF f.vis = "tuple" THEN f.elems[Len(f.acc) + 1] ELSE f.elems[1]

\* The pulls the visitor "again" makes after the first answer of no more.
ExtraPulls == 1

\* SeqAccess::next_element_seed, and what the visitor does with Ok(None):
\* the visitor of a sequence returns what it has collected (after asking
\* again, if it is one that does), the visitor of a tuple reports the
\* missing field (Error::custom).
next_element_seed ==
  /\ pc = "run"
  /\ steps < MaxSteps
  /\ stack # <<>>
  /\ stack[1].k = "seq"
  /\ LET f == stack[1]
         l == Last("next_element_seed", NoRead, NoRead)
     IN IF ~UsizeIsZero(f.len)
        THEN Goto(<<De(NextShape(f)),
                    [f EXCEPT !.len = UsizeDec(f.len), !.pulls = @ + 1]>> \o Tail(stack),
                  input, 1, l)
        ELSE IF f.vis = "tuple" THEN Fail("SerdeDeCustom", input, 1, l)
        ELSE IF f.vis = "again" /\ f.nones < ExtraPulls
             THEN Goto(<<[f EXCEPT !.nones = @ + 1]>> \o Tail(stack), input, 1, l)
        ELSE Yield(f.acc, Tail(stack), input, 1, l)

\* SeqAccess::size_hint
size_hint(f) == f.len

\* ------------------------------------------------------------------------
\* impl EnumAccess, impl VariantAccess
\* ------------------------------------------------------------------------

\* EnumAccess::variant_seed: the ordinal goes to the framework as a u32, and
\* the framework rejects (Error::custom) an ordinal that names no variant.
variant_seed ==
  /\ pc = "run"
  /\ steps < MaxSteps
  /\ stack # <<>>
  /\ stack[1].k = "enum"
  /\ LET v == try_take_varint(input)
         l == Last("variant_seed", v, NoRead)
     IN IF ~v.ok THEN Fail(v.err, v.rest, 1, l)
        ELSE IF ExceedsU32(v.val[1]) THEN Fail("DeserializeBadEnum", v.rest, 1, l)
        ELSE LET w == AsU32(v.val[1])
                 vs == stack[1].variants
             IN IF w[2] = 0 /\ w[1] < Len(vs)
                THEN Goto(<<[k |-> "variant", ord |-> w[1], var |-> vs[w[1] + 1]]>>
                            \o Tail(stack), v.rest, 1, l)
                ELSE Fail("SerdeDeCustom", v.rest, 1, l)

\* The framework is about to ask for the payload of a variant of kind `tag`.
Payload(tag) ==
  /\ pc = "run"
  /\ steps < MaxSteps
  /\ stack # <<>>
  /\ stack[1].k = "variant"
  /\ stack[1].var[1] = tag

unit_variant ==
  /\ Payload("unit_variant")
  /\ Yield(<<stack[1].ord, <<>>>>, Tail(stack), input, 0,
           Last("unit_variant", NoRead, NoRead))

newtype_variant_seed ==
  /\ Payload("newtype_variant")
  /\ Goto(<<De(stack[1].var[2]), WrapFrame("variant", stack[1].ord)>> \o Tail(stack),
          input, 0, Last("newtype_variant", NoRead, NoRead))

tuple_variant ==
  /\ Payload("tuple_variant")
  /\ TupleBody("tuple_variant", stack[1].var[2],
               <<WrapFrame("variant", stack[1].ord)>> \o Tail(stack))

struct_variant ==
  /\ Payload("struct_variant")
  /\ TupleBody("struct_variant", stack[1].var[2],
               <<WrapFrame("variant", stack[1].ord)>> \o Tail(stack))

\* ------------------------------------------------------------------------
\* The calls studied
\* ------------------------------------------------------------------------

Bool == <<"bool">>
U8 == <<"u8">>
U16 == <<"u16">>
U32 == <<"u32">>
U64 == <<"u64">>
I8 == <<"i8">>
I16 == <<"i16">>
I32 == <<"i32">>
I64 == <<"i64">>
F32 == <<"f32">>
F64 == <<"f64">>
Char == <<"char">>
Str == <<"str">>
String == <<"string">>
Bytes == <<"bytes">>
ByteBuf == <<"byte_buf">>
Unit == <<"unit">>
UnitStruct == <<"unit_struct">>

\* The types of the tests of de.rs.
BasicU8S == <<"struct", <<U16, U8, U64, U32>>>>
BasicEnum == <<"enum", <<<<"unit_variant">>, <<"unit_variant">>, <<"unit_variant">>>>>>
EnumStruct == <<"struct", <<U8, U16>>>>
DataEnum ==
  <<"enum", << <<"newtype_variant", U16>>, <<"newtype_variant", U64>>,
               <<"newtype_variant", U8>>, <<"newtype_variant", EnumStruct>>,
               <<"struct_variant", <<U8, U32>>>>, <<"tuple_variant", <<U16, U8>>>> >> >>
NewTypeStruct == <<"newtype_struct", U32>>
TupleStruct == <<"newtype_struct", <<"tuple", <<U8, U16>>>>>>
RefStruct == <<"struct", <<Bytes, Str>>>>
Tuple3 == <<"tuple", <<U8, U32, Str>>>>

\* Further types: the tuple structs of two fields struct Pair(u8, u16) and
\* struct Flags(bool, bool); the sequences Vec<u8>, Vec<()>,
\* Vec<Option<bool>>, and a sequence of u8 whose visitor asks again after
\* the last element; nested composites.
Pair == <<"tuple_struct", <<U8, U16>>>>
VecU8 == <<"seq", U8>>
VecUnit == <<"seq", Unit>>
VecOptBool == <<"seq", <<"option", Bool>>>>
VecU8Again == <<"seq", U8, "again">>
Flags == <<"tuple_struct", <<Bool, Bool>>>>
OptU8 == <<"option", U8>>
OptPair == <<"option", Pair>>
Nested == <<"struct", <<BasicEnum, <<"option", <<"tuple", <<I8, Str>>>>>>, UnitStruct>>>>
EnumOfSeq == <<"enum", << <<"unit_variant">>, <<"newtype_variant", VecU8>>,
                          <<"tuple_variant", <<Bool, Pair>>>> >> >>

\* The shapes the format supports.
Supported ==
  { Bool, U8, U16, U32, U64, I8, I16, I32, I64, F32, F64, Char, Str, String,
    Bytes, ByteBuf, Unit, UnitStruct, BasicU8S, BasicEnum, EnumStruct,
    DataEnum, NewTypeStruct, TupleStruct, RefStruct, Tuple3, Pair, VecU8,
    VecUnit, VecOptBool, VecU8Again, Flags, OptU8, OptPair, Nested, EnumOfSeq }

\* The decode modes the format does not support.
Unsupportable == { <<"any">>, <<"map">>, <<"identifier">>, <<"ignored_any">> }

\* Types that reach an unsupported mode after other reads.
UnsupportableWithin ==
  { <<"tuple", <<U8, <<"any">>>>>>, <<"option", <<"map">>>>,
    <<"struct", <<Bool, <<"identifier">>>>>>, <<"seq", <<"ignored_any">>>> }

\* The longest sequence value tried.
MaxSeqLen == 2

\* The values tried for each kind of number, string and byte buffer.
Samples(tag) ==
  CASE tag = "bool" -> {FALSE, TRUE}
    [] tag = "u8" -> {0, 5, 255}
    [] tag = "i8" -> {0, -1, -128, 127}
    [] tag = "u16" -> {0, 42439}
    [] tag = "i16" -> {0, -2, 32767, -32768}
    [] tag \in {"u32", "i32", "f32"} -> {<<0, 0>>, <<13330, 52651>>, <<65535, 65535>>}
    [] tag \in {"u64", "i64", "f64"} -> {<<0, 0, 0, 0>>, <<52719, 37035, 22136, 4660>>}
    [] tag = "char" -> {0, 97, 233, 55295, 57344, 128512, 1114111}
    [] tag \in {"str", "string"} -> {<<>>, <<104, 105>>, <<195, 169, 0>>}
    [] tag \in {"bytes", "byte_buf"} -> {<<>>, <<1, 0, 2>>, <<255>>}

Seqs(S, n) == UNION {[1..k -> S] : k \in 0..n}

RECURSIVE Values(_)
ValuesAll(shapes) ==
  LET RECURSIVE Prod(_)
      Prod(i) == IF i > Len(shapes) THEN {<<>>}
                 ELSE {<<x>> \o r : x \in Values(shapes[i]), r \in Prod(i + 1)}
  IN Prod(1)

Values(shape) ==
  LET tag == shape[1] IN
  CASE tag \in {"unit", "unit_struct"} -> {<<>>}
    [] tag = "option" -> {<<>>} \cup {<<x>> : x \in Values(shape[2])}
    [] tag = "newtype_struct" -> Values(shape[2])
    [] tag = "seq" -> Seqs(Values(shape[2]), MaxSeqLen)
    [] tag \in {"tuple", "tuple_struct", "struct"} -> ValuesAll(shape[2])
    [] tag = "enum" ->
         UNION { LET var == shape[2][i] IN
                 CASE var[1] = "unit_variant" -> {<<i - 1, <<>>>>}
                   [] var[1] = "newtype_variant" -> {<<i - 1, x>> : x \in Values(var[2])}
                   [] OTHER -> {<<i - 1, x>> : x \in ValuesAll(var[2])}
               : i \in 1..Len(shape[2]) }
    [] OTHER -> Samples(tag)

\* The bytes that may follow an encoding in the caller's buffer.
Extras == {<<>>, <<0>>, <<2, 255>>}

Case(kind, shape, bytes, val, enc, extra, entries) ==
  [kind |-> kind, shape |-> shape, bytes |-> bytes, val |-> val, enc |-> enc,
   extra |-> extra, entries |-> entries, more |-> <<>>]

\* An encoded value, followed by extra bytes.
EncCase ==
  \E s \in Supported : \E v \in Values(s) : \E x \in Extras :
    tc = Case("enc", s, Encode(s, v) \o x, <<v>>, Encode(s, v), x,
              {"from_bytes", "take_from_bytes"})

\* A strict prefix of an encoded value.
CutCase ==
  \E s \in Supported : \E v \in Values(s) :
    \E n \in 0..(Len(Encode(s, v)) - 1) :
      tc = Case("cut", s, SubSeq(Encode(s, v), 1, n), <<v>>, Encode(s, v), <<>>,
                {"from_bytes", "take_from_bytes"})

\* The longest arbitrary input tried.
MaxRawLen == 3

\* The bytes arbitrary inputs are made of.
RawBytes == {0, 1, 2, 127, 128, 255}

\* Arbitrary bytes, for every shape and every decode mode.
RawCase ==
  \E s \in Supported \cup Unsupportable \cup UnsupportableWithin :
  \E b \in Seqs(RawBytes, MaxRawLen) :
    tc = Case("raw", s, b, <<>>, <<>>, <<>>, {"take_from_bytes"})

\* Every byte as the discriminant of a bool and of an option.
DiscriminantCase ==
  \E s \in {Bool, OptU8, <<"option", Bool>>} : \E b \in Byte : \E x \in Extras :
    tc = Case("byte", s, <<b>> \o x, <<>>, <<>>, <<>>, {"take_from_bytes"})

\* The most bytes tried after the count of a sequence.
MaxBody == 4

\* The most elements a count tried announces.
MaxCount == 5

\* A count, then more bytes, fewer bytes or as many bytes as it announces.
SeqCase ==
  \E s \in {VecU8, VecU8Again, VecUnit, Flags} : \E c \in 0..MaxCount :
  \E b \in Seqs({0, 1, 7}, MaxBody) :
    tc = Case("seq", s, <<c>> \o b, <<>>, <<>>, <<>>, {"take_from_bytes"})

\* The numbers whose varints are tried: 2^k and 2^k - 1 for every k below
\* the width of usize, and the numbers the tests name.
Pow2(k) == [i \in 1..NLimbs |-> IF i = (k \div 16) + 1 THEN 2^(k % 16) ELSE 0]

Pow2Less1(k) ==
  [i \in 1..NLimbs |->
     IF i < (k \div 16) + 1 THEN LimbBase - 1
     ELSE IF i = (k \div 16) + 1 THEN 2^(k % 16) - 1 ELSE 0]

VarintSamples ==
  {Pow2(k) : k \in 0..(UsizeBits - 1)} \cup {Pow2Less1(k) : k \in 0..(UsizeBits - 1)}
    \cup {ToUsize(300), ToUsize(1024), ToUsize(5), [i \in 1..NLimbs |-> LimbBase - 1]}

\* The shapes whose decoding starts with a varint.
VarintShapes == {Str, Bytes, VecU8, DataEnum, Pair}

\* The varint of a number, followed by arbitrary bytes.
VarintCase ==
  \E s \in VarintShapes : \E n \in VarintSamples : \E x \in Extras \cup {<<128, 128>>} :
    tc = Case("varint", s, EncodeVarint(n) \o x, <<n>>, EncodeVarint(n), x,
              {"take_from_bytes"})

\* Varints of every length up to the longest, minimal or not, with every
\* kind of last group: empty, one that fits and ones with bits that do not.
WideCase ==
  \E s \in VarintShapes : \E k \in 0..(varint_usize_max - 1) :
  \E hi \in {<<128, 128>>, <<255, 129>>, <<255, 255>>} :
  \E t \in {0, 1, 2, 3, 64, 127} : \E x \in {<<>>, <<128, 1>>} :
    tc = Case("wide", s, [i \in 1..k |-> hi[(i % 2) + 1]] \o <<t>> \o x,
              <<>>, <<>>, x, {"take_from_bytes"})

\* The longest run of bytes with the high bit set tried.
MaxRun == 11

\* A run of k bytes with the high bit set, then a few more bytes.
RunCase ==
  \E s \in VarintShapes \cup {VecUnit} : \E k \in 0..MaxRun :
    \E hi \in {<<128, 128>>, <<255, 129>>} : \E x \in {<<>>, <<1>>, <<0, 7>>} :
      tc = Case("run", s, [i \in 1..k |-> hi[(i % 2) + 1]] \o x, <<>>, <<>>, x,
                {"take_from_bytes"})

\* cobs::encode(source): every run of non-zero bytes is preceded by a code
\* byte, one more than its length; a code of 255 is a run of 254 bytes that
\* no zero follows.
RECURSIVE NonZeroRun(_, _)
NonZeroRun(b, n) ==
  IF n < Len(b) /\ n < 254 /\ b[n + 1] # 0 THEN NonZeroRun(b, n + 1) ELSE n

RECURSIVE CobsEncode(_)
CobsEncode(b) ==
  LET n == NonZeroRun(b, 0) IN
  IF n = 254 THEN <<255>> \o SubSeq(b, 1, 254) \o CobsEncode(SubSeq(b, 255, Len(b)))
  ELSE IF n = Len(b) THEN <<n + 1>> \o b
  ELSE <<n + 1>> \o SubSeq(b, 1, n) \o CobsEncode(SubSeq(b, n + 2, Len(b)))

\* The stuffed frame of section 4.5: the stuffed bytes and the trailing marker.
Stuff(b) == CobsEncode(b) \o <<0>>

\* The shapes whose values are sent in frames.
FrameShapes == {U8, U16, RefStruct, DataEnum, OptU8, Pair, VecU8, Unit}

\* One frame in the buffer: the stuffed encoding of a value, as the test
\* cobs_test builds it (cobs::encode, kind "cobs") and with its marker (kind
\* "stuffed").
FrameCase ==
  \E s \in FrameShapes : \E v \in Values(s) :
    \/ tc = Case("cobs", s, CobsEncode(Encode(s, v)), <<v>>, Encode(s, v), <<>>,
                 {"from_bytes_cobs", "take_from_bytes_cobs"})
    \/ tc = Case("stuffed", s, Stuff(Encode(s, v)), <<v>>, Encode(s, v), <<>>,
                 {"from_bytes_cobs", "take_from_bytes_cobs"})

\* Two frames in the buffer, one after the other.
FramesCase ==
  \E s \in {U8, U16, OptU8} : \E v \in Values(s) : \E w \in Values(s) :
    tc = [Case("frames", s, Stuff(Encode(s, v)) \o Stuff(Encode(s, w)), <<v>>,
               Encode(s, v), Stuff(Encode(s, w)), {"take_from_bytes_cobs"})
            EXCEPT !.more = <<w>>]

\* Arbitrary bytes in the buffer of the in-place entry points.
RawFrameCase ==
  \E s \in {U8, Str} : \E b \in Seqs({0, 1, 2, 3, 255}, MaxRawLen) :
    tc = Case("rawframe", s, b, <<>>, <<>>, <<>>,
              {"from_bytes_cobs", "take_from_bytes_cobs"})

Init ==
  /\ \/ EncCase
     \/ CutCase
     \/ RawCase
     \/ DiscriminantCase
     \/ SeqCase
     \/ VarintCase
     \/ RunCase
     \/ WideCase
     \/ FrameCase
     \/ FramesCase
     \/ RawFrameCase
  /\ entry = "none"
  /\ calls = 0
  /\ buf = tc.bytes
  /\ sz = 0
  /\ input = <<>>
  /\ stack = <<>>
  /\ pc = "start"
  /\ result = NoResult
  /\ steps = 0
  /\ last = [op |-> "none", before |-> <<>>, vi |-> NoRead, tn |-> NoRead]

Next ==
  \/ FromBytes
  \/ TakeFromBytes
  \/ FromBytesCobs
  \/ TakeFromBytesCobs
  \/ deserialize_any
  \/ deserialize_bool
  \/ deserialize_i8
  \/ deserialize_i16
  \/ deserialize_i32
  \/ deserialize_i64
  \/ deserialize_u8
  \/ deserialize_u16
  \/ deserialize_u32
  \/ deserialize_u64
  \/ deserialize_f32
  \/ deserialize_f64
  \/ deserialize_char
  \/ deserialize_str
  \/ deserialize_string
  \/ deserialize_bytes
  \/ deserialize_byte_buf
  \/ deserialize_option
  \/ deserialize_unit
  \/ deserialize_unit_struct
  \/ deserialize_newtype_struct
  \/ deserialize_seq
  \/ deserialize_tuple
  \/ deserialize_tuple_struct
  \/ deserialize_map
  \/ deserialize_struct
  \/ deserialize_enum
  \/ deserialize_identifier
  \/ deserialize_ignored_any
  \/ next_element_seed
  \/ variant_seed
  \/ unit_variant
  \/ newtype_variant_seed
  \/ tuple_variant
  \/ struct_variant

Spec == Init /\ [][Next]_vars

\* ------------------------------------------------------------------------
\* Properties
\* ------------------------------------------------------------------------

\* The value the call under study was given the encoding of.
Given == tc.val[1]

RECURSIVE HasTupleStruct(_)
HasTupleStruct(shape) ==
  LET tag == shape[1] IN
  CASE tag = "tuple_struct" -> TRUE
    [] tag \in {"option", "newtype_struct", "seq", "newtype_variant"} ->
         HasTupleStruct(shape[2])
    [] tag \in {"tuple", "struct", "enum", "tuple_variant", "struct_variant"} ->
         \E i \in 1..Len(shape[2]) : HasTupleStruct(shape[2][i])
    [] OTHER -> FALSE

\* C1: round trip.  from_bytes of the encoding of a value of any supported
\* shape succeeds and returns that value.
C1_RoundTrip ==
  (pc = "done" /\ tc.kind = "enc" /\ entry = "from_bytes")
    => (result.ok /\ result.val[1] = Given)

\* The round trip of the shapes that hold no tuple struct.
RoundTripWithoutTupleStruct ==
  (pc = "done" /\ tc.kind = "enc" /\ ~HasTupleStruct(tc.shape))
    => (result.ok /\ result.val[1] = Given)

\* C2: a tuple, a tuple struct and a struct are decoded without reading a
\* count or a tag: the method itself consumes nothing, the first byte is the
\* first field's, and exactly the fields' encodings are consumed.
C2_StaticArityNoCount ==
  /\ (last.op \in {"tuple", "tuple_struct", "struct"})
       => (last.vi = NoRead /\ input = last.before)
  /\ (/\ pc = "done"
      /\ tc.kind = "enc"
      /\ entry = "take_from_bytes"
      /\ tc.shape[1] \in {"tuple", "tuple_struct", "struct"})
       => (result.ok /\ result.val[1] = Given /\ result.rest = tc.extra)

\* What C2 states, of deserialize_tuple and deserialize_struct alone.
TupleAndStructNoCount ==
  /\ (last.op \in {"tuple", "struct"})
       => (last.vi = NoRead /\ input = last.before)
  /\ (/\ pc = "done"
      /\ tc.kind = "enc"
      /\ entry = "take_from_bytes"
      /\ tc.shape[1] \in {"tuple", "struct"}
      /\ ~HasTupleStruct(tc.shape))
       => (result.ok /\ result.val[1] = Given /\ result.rest = tc.extra)

\* C3: truncation.  Decoding a strict prefix of an encoding fails, and the
\* error is DeserializeUnexpectedEnd.
C3_Truncation ==
  (pc = "done" /\ tc.kind = "cut")
    => (~result.ok /\ result.err = "DeserializeUnexpectedEnd")

\* Truncation, of the shapes that hold no tuple struct.
TruncationWithoutTupleStruct ==
  (pc = "done" /\ tc.kind = "cut" /\ ~HasTupleStruct(tc.shape))
    => (~result.ok /\ result.err = "DeserializeUnexpectedEnd")

\* C4: remainder.  take_from_bytes of an encoding followed by extra bytes
\* returns the value and exactly the extra bytes.
C4_Remainder ==
  (pc = "done" /\ tc.kind = "enc" /\ entry = "take_from_bytes")
    => (result.ok /\ result.val[1] = Given /\ result.rest = tc.extra)

\* The remainder, of the shapes that hold no tuple struct.
RemainderWithoutTupleStruct ==
  (pc = "done" /\ tc.kind = "enc" /\ entry = "take_from_bytes"
     /\ ~HasTupleStruct(tc.shape))
    => (result.ok /\ result.val[1] = Given /\ result.rest = tc.extra)

\* C5: concatenated frames.  take_from_bytes_cobs on a buffer of two frames
\* returns the first frame's value and, as the remainder, exactly the bytes
\* that follow the first frame (the second frame), and a second call, on
\* that remainder, returns the second frame's value.
C5_ConcatenatedFrames ==
  (pc = "done" /\ tc.kind = "frames")
    => /\ result.ok
       /\ (calls = 1) => (result.val[1] = Given /\ result.rest = tc.extra)
       /\ (calls = 2) => (result.val[1] = tc.more[1])

\* The part of C5 that split_at_mut gives: the used and the unused regions
\* are the two sides of one cut of the buffer.
UsedUnusedCoverTheBuffer ==
  (pc = "done" /\ entry = "take_from_bytes_cobs" /\ result.ok)
    => (/\ sz <= Len(buf)
        /\ cobs_used(buf, sz) \o result.rest = buf)

\* Whether the last method called read a varint.
ReadVarint == last.vi.err # "noread"

\* The first min(len, MAX) bytes at the cursor all have the high bit set.
AllHigh(b) ==
  \A i \in 1..(IF Len(b) < varint_usize_max THEN Len(b) ELSE varint_usize_max) :
    b[i] >= 128

\* C6: a varint with no terminator among its first MAX bytes fails with
\* DeserializeBadVarint when MAX bytes or more remain and with
\* DeserializeUnexpectedEnd when fewer remain; the read succeeds exactly when
\* one of the first min(len, MAX) bytes has the high bit clear, and it never
\* looks at a byte beyond the first MAX.
C6_VarintClassification ==
  ReadVarint =>
    /\ (AllHigh(last.before) /\ Len(last.before) >= varint_usize_max)
         => (~last.vi.ok /\ last.vi.err = "DeserializeBadVarint")
    /\ (AllHigh(last.before) /\ Len(last.before) < varint_usize_max)
         => (~last.vi.ok /\ last.vi.err = "DeserializeUnexpectedEnd")
    /\ last.vi.ok <=> ~AllHigh(last.before)
    /\ last.vi.read <= varint_usize_max
    /\ last.vi.read <= Len(last.before)

C6_Witness ==
  /\ ReadVarint
  /\ Len(last.before) > varint_usize_max
  /\ AllHigh(last.before)
  /\ last.vi.err = "DeserializeBadVarint"
  /\ pc = "done"

\* C7: reading the varint of a number n, whatever bytes follow it, returns n
\* and moves the cursor by the length of the varint; [0xAC, 0x02] is 300,
\* [0x80, 0x08] is 1024 and a single byte below 128 is itself.
C7_VarintInverse ==
  ReadVarint =>
    /\ (tc.kind = "varint" /\ last.before = tc.bytes)
         => /\ last.vi.ok
            /\ last.vi.val[1] = Given
            /\ last.vi.rest = tc.extra
            /\ last.vi.read = Len(tc.enc)
    /\ (last.vi.ok /\ last.op \in {"seq", "tuple_struct", "variant_seed"})
         => input = last.vi.rest
    /\ (Len(last.before) >= 1 /\ last.before[1] < 128)
         => /\ last.vi.ok
            /\ last.vi.val[1] = ToUsize(last.before[1])
            /\ last.vi.rest = Tail(last.before)
    /\ (Len(last.before) >= 2 /\ last.before[1] = 172 /\ last.before[2] = 2)
         => (last.vi.ok /\ last.vi.val[1] = ToUsize(300) /\ last.vi.read = 2)
    /\ (Len(last.before) >= 2 /\ last.before[1] = 128 /\ last.before[2] = 8)
         => (last.vi.ok /\ last.vi.val[1] = ToUsize(1024) /\ last.vi.read = 2)

C7_Witness ==
  /\ ReadVarint
  /\ tc.kind = "varint"
  /\ last.before = tc.bytes
  /\ tc.enc = <<172, 2>>
  /\ tc.extra = <<128, 128>>
  /\ last.vi.ok
  /\ last.vi.val[1] = ToUsize(300)

\* C8: the ordinal of an enum is one varint; an ordinal above 0xFFFF_FFFF
\* fails with DeserializeBadEnum before any payload byte is read; any other
\* ordinal selects the variant, whose payload is nothing for a unit variant,
\* the inner value for a newtype variant and the fields, with no count, for
\* a tuple or struct variant.
C8_EnumDecode ==
  /\ (last.op = "variant_seed" /\ last.vi.ok)
       => /\ Len(last.before) - Len(input) = last.vi.read
          /\ input = last.vi.rest
          /\ (last.vi.val[1][3] # 0 \/ last.vi.val[1][4] # 0)
               => (pc = "done" /\ ~result.ok /\ result.err = "DeserializeBadEnum")
          /\ (last.vi.val[1][3] = 0 /\ last.vi.val[1][4] = 0)
               => (~result.ok => result.err # "DeserializeBadEnum")
          /\ (pc = "run")
               => /\ stack[1].k = "variant"
                  /\ last.vi.val[1] = ToUsize(stack[1].ord)
                  /\ (last.before = tc.bytes /\ tc.shape[1] = "enum")
                       => stack[1].var = tc.shape[2][stack[1].ord + 1]
  /\ (last.op = "unit_variant") => input = last.before
  /\ (last.op = "newtype_variant")
       => (input = last.before /\ stack[1].k = "de")
  /\ (last.op \in {"tuple_variant", "struct_variant"})
       => /\ input = last.before
          /\ last.vi = NoRead
          /\ (pc = "run")
               => /\ stack[1].k = "seq"
                  /\ stack[1].vis = "tuple"
                  /\ stack[1].len = ToUsize(Len(stack[1].elems))
  /\ (/\ pc = "done"
      /\ tc.kind = "enc"
      /\ entry = "take_from_bytes"
      /\ tc.shape \in {BasicEnum, DataEnum})
       => (result.ok /\ result.val[1] = Given /\ result.rest = tc.extra)

C8_Witness ==
  /\ last.op = "variant_seed"
  /\ last.vi.ok
  /\ last.vi.val[1] = <<0, 0, 1, 0>>
  /\ result.err = "DeserializeBadEnum"
  /\ Len(input) > 0

\* C9: frame round trip.  from_bytes_cobs on the stuffed encoding of a value
\* returns the value.
C9_FrameRoundTrip ==
  (pc = "done" /\ tc.kind \in {"cobs", "stuffed"} /\ entry = "from_bytes_cobs")
    => (result.ok /\ result.val[1] = Given)

\* The frame round trip of the shapes that hold no tuple struct, and the
\* destuffing of what cobs::encode stuffed.
FrameRoundTripWithoutTupleStruct ==
  /\ (pc = "done" /\ tc.kind \in {"cobs", "stuffed"} /\ ~HasTupleStruct(tc.shape))
       => (result.ok /\ result.val[1] = Given)
  /\ (pc # "start" /\ tc.kind = "cobs") => cobs_used(buf, sz) = tc.enc

RECURSIVE ShapeSize(_)
ShapeSize(shape) ==
  LET tag == shape[1]
      RECURSIVE Sum(_)
      Sum(i) == IF i > Len(shape[2]) THEN 0 ELSE ShapeSize(shape[2][i]) + Sum(i + 1)
  IN CASE tag \in {"option", "newtype_struct", "seq", "newtype_variant"} ->
            1 + ShapeSize(shape[2])
       [] tag \in {"tuple", "tuple_struct", "struct", "enum", "tuple_variant",
                   "struct_variant"} -> 1 + Sum(1)
       [] OTHER -> 1

\* A sequence whose elements may take no byte at all.
RECURSIVE MayBeEmpty(_)
MayBeEmpty(shape) ==
  LET tag == shape[1] IN
  CASE tag \in {"unit", "unit_struct"} -> TRUE
    [] tag = "newtype_struct" -> MayBeEmpty(shape[2])
    [] tag \in {"tuple", "struct"} ->
         \A i \in 1..Len(shape[2]) : MayBeEmpty(shape[2][i])
    [] OTHER -> FALSE

RECURSIVE HasEmptyElements(_)
HasEmptyElements(shape) ==
  LET tag == shape[1] IN
  CASE tag = "seq" -> MayBeEmpty(shape[2]) \/ HasEmptyElements(shape[2])
    [] tag \in {"option", "newtype_struct", "newtype_variant"} ->
         HasEmptyElements(shape[2])
    [] tag \in {"tuple", "tuple_struct", "struct", "enum", "tuple_variant",
                "struct_variant"} ->
         \E i \in 1..Len(shape[2]) : HasEmptyElements(shape[2][i])
    [] OTHER -> FALSE

\* C10: the reads and pulls of a call are bounded by a linear function of
\* the length of the input, for every shape, and a varint read looks at no
\* more than MAX bytes.
C10_LinearSteps ==
  /\ steps <= ShapeSize(tc.shape) * (Len(tc.bytes) + 1)
  /\ ReadVarint => last.vi.read <= varint_usize_max

\* The same bound, of the shapes with no sequence of empty elements.
LinearStepsWithoutEmptyElements ==
  ~HasEmptyElements(tc.shape)
    => steps <= ShapeSize(tc.shape) * (Len(tc.bytes) + 1)

\* The payload of a length-prefixed read: the n bytes of the input before the
\* read that follow its varint prefix.
PayloadRange ==
  SubSeq(last.before, last.vi.read + 1, last.vi.read + SmallVal(last.vi.val[1]))

\* The input before the read, from the end of the payload on.
AfterPayload ==
  SubSeq(last.before, last.vi.read + SmallVal(last.vi.val[1]) + 1, Len(last.before))

\* C11: deserialize_str and deserialize_bytes (and deserialize_string and
\* deserialize_byte_buf, which call them) read one varint n and take the next
\* n bytes.  With fewer than n bytes left the call fails with
\* DeserializeUnexpectedEnd, whatever the bytes are; otherwise the payload is
\* the range [p, p + n) of the input after the prefix, the cursor ends at
\* p + n, the bytes decode never fails, and the string decode fails, with
\* DeserializeBadUtf8, exactly when the payload is not valid UTF-8.
C11_LengthPrefixed ==
  (last.op \in {"str", "string", "bytes", "byte_buf"}) =>
    /\ ReadVarint
    /\ ~last.vi.ok
         => (pc = "done" /\ result.err = last.vi.err /\ last.tn = NoRead)
    /\ last.vi.ok =>
         /\ last.tn # NoRead
         /\ ~LenAtLeast(Len(last.before) - last.vi.read, last.vi.val[1])
              => /\ pc = "done"
                 /\ ~result.ok
                 /\ result.err = "DeserializeUnexpectedEnd"
         /\ LenAtLeast(Len(last.before) - last.vi.read, last.vi.val[1])
              => /\ last.tn.ok
                 /\ last.tn.val[1] = PayloadRange
                 /\ input = AfterPayload
                 /\ Len(last.before) - Len(input)
                      = last.vi.read + SmallVal(last.vi.val[1])
                 /\ (last.op \in {"bytes", "byte_buf"})
                      => ~(pc = "done" /\ ~result.ok)
                 /\ (last.op \in {"str", "string"})
                      => /\ (pc = "done" /\ ~result.ok)
                              <=> ~from_utf8_ok(PayloadRange)
                         /\ (pc = "done" /\ ~result.ok)
                              => result.err = "DeserializeBadUtf8"
                 /\ (pc = "done" /\ result.ok /\ last.before = tc.bytes)
                      => result.val[1] = PayloadRange
    /\ (Len(last.before) >= 2 /\ last.before[1] = 1 /\ last.before[2] = 255)
         => IF last.op \in {"str", "string"}
            THEN result.err = "DeserializeBadUtf8"
            ELSE ~(pc = "done" /\ ~result.ok)

\* A string of declared length 2 with one byte left, and that byte not UTF-8.
C11_Witness ==
  /\ last.op = "str"
  /\ last.before = <<2, 255>>
  /\ pc = "done"
  /\ result.err = "DeserializeUnexpectedEnd"

\* C12: the discriminant of a bool and of an option is one byte.  bool: 0 is
\* false, 1 is true, every other byte fails with DeserializeBadBool.  option:
\* 0 is absent and only that byte is consumed, 1 hands the bytes that follow
\* to the payload's decoder, every other byte fails with DeserializeBadOption
\* and no payload is decoded.  With no byte left both fail with
\* DeserializeUnexpectedEnd.
C12_StrictDiscriminants ==
  /\ (last.op \in {"bool", "option"}) =>
       /\ last.vi = NoRead
       /\ (last.before = <<>>)
            => /\ pc = "done"
               /\ ~result.ok
               /\ result.err = "DeserializeUnexpectedEnd"
               /\ input = <<>>
       /\ (last.before # <<>>) => input = Tail(last.before)
  /\ (last.op = "bool" /\ last.before # <<>>) =>
       /\ (last.before[1] \in {0, 1})
            => /\ ~(pc = "done" /\ ~result.ok)
               /\ (pc = "done" /\ tc.shape = Bool)
                    => result.val[1] = (last.before[1] = 1)
       /\ (last.before[1] \in 2..255)
            => /\ pc = "done"
               /\ ~result.ok
               /\ result.err = "DeserializeBadBool"
  /\ (last.op = "option" /\ last.before # <<>>) =>
       /\ (last.before[1] = 0)
            => /\ ~(pc = "done" /\ ~result.ok)
               /\ (last.before = tc.bytes /\ tc.shape[1] = "option")
                    => /\ pc = "done"
                       /\ result.val[1] = <<>>
                       /\ (entry = "take_from_bytes")
                            => result.rest = Tail(tc.bytes)
       /\ (last.before[1] = 1)
            => /\ pc = "run"
               /\ stack[1].k = "de"
               /\ stack[2] = WrapFrame("some", 0)
               /\ (last.before = tc.bytes /\ tc.shape[1] = "option")
                    => stack[1] = De(tc.shape[2])
       /\ (last.before[1] \in 2..255)
            => /\ pc = "done"
               /\ ~result.ok
               /\ result.err = "DeserializeBadOption"
               /\ stack = <<>>
  /\ (/\ pc = "done"
      /\ tc.kind = "byte"
      /\ tc.shape = OptU8
      /\ tc.bytes[1] = 1
      /\ Len(tc.bytes) >= 2)
       => (result.ok /\ result.val[1] = <<tc.bytes[2]>>
             /\ result.rest = Tail(Tail(tc.bytes)))

\* An option whose discriminant is 2, with bytes after it that would decode.
C12_Witness ==
  /\ last.op = "option"
  /\ tc.kind = "byte"
  /\ last.before = <<2, 0>>
  /\ result.err = "DeserializeBadOption"
  /\ input = <<0>>

\* C13: deserialize_any, deserialize_identifier and deserialize_ignored_any
\* fail with WontImplement and deserialize_map fails with NotYetImplemented,
\* on every input, the empty one included; nothing is read, the cursor stays
\* where it was and no visitor is called.
C13_UnsupportedModes ==
  /\ (last.op \in {"any", "map", "identifier", "ignored_any"}) =>
       /\ pc = "done"
       /\ ~result.ok
       /\ result.err = (IF last.op = "map" THEN "NotYetImplemented" ELSE "WontImplement")
       /\ input = last.before
       /\ last.vi = NoRead
       /\ last.tn = NoRead
       /\ stack = <<>>
  /\ (pc = "done" /\ tc.shape \in Unsupportable) =>
       /\ last.op = tc.shape[1]
       /\ input = tc.bytes
       /\ steps = 0

\* deserialize_ignored_any called for an element of a sequence, with bytes
\* left at the cursor.
C13_Witness ==
  /\ last.op = "ignored_any"
  /\ tc.bytes = <<2, 1, 0>>
  /\ last.before = <<1, 0>>
  /\ input = <<1, 0>>
  /\ result.err = "WontImplement"

\* s is what is left of t after some bytes at its front.
IsSuffix(s, t) ==
  /\ Len(s) <= Len(t)
  /\ s = SubSeq(t, Len(t) - Len(s) + 1, Len(t))

\* The region the call under way decodes.
Region ==
  IF entry \in {"from_bytes_cobs", "take_from_bytes_cobs"}
  THEN cobs_used(buf, sz)
  ELSE buf

\* C14: the cursor only moves forward.  After every step of a call, failing
\* or not, the input left is a suffix of the input left before the step; it
\* is always a suffix of the region the call decodes; what a read returns is
\* the front of the input it was given, and what it leaves is the rest.
C14_CursorMonotone ==
  /\ [][pc = "run" => IsSuffix(input', input)]_vars
  /\ [](pc \in {"run", "done"} => IsSuffix(input, Region))
  /\ [](~(last.op \in {"none", "from_bytes", "take_from_bytes", "from_bytes_cobs",
                       "take_from_bytes_cobs"})
          => IsSuffix(input, last.before))
  /\ [](ReadVarint
          => /\ IsSuffix(last.vi.rest, last.before)
             /\ last.vi.read <= Len(last.before)
             /\ last.vi.ok
                  => Len(last.vi.rest) = Len(last.before) - last.vi.read
             /\ ~last.vi.ok => last.vi.rest = last.before)
  /\ [](last.tn # NoRead
          => /\ IsSuffix(last.tn.rest, last.before)
             /\ last.tn.ok
                  => /\ IsSuffix(last.tn.val[1] \o last.tn.rest, last.before)
                     /\ Len(last.tn.rest) <= Len(last.before) - last.tn.read
             /\ ~last.tn.ok => IsSuffix(input, last.tn.rest))

\* A call that has read a struct of an enum, an option of a tuple and a unit
\* struct to the end, every read moving the cursor on.
C14_Witness ==
  /\ pc = "done"
  /\ tc.kind = "enc"
  /\ tc.shape = Nested
  /\ entry = "take_from_bytes"
  /\ result.ok
  /\ Len(tc.enc) >= 4
  /\ input = tc.extra
  /\ tc.extra # <<>>

\* u and a small number c added from limb i on; a sum that does not fit in a
\* usize is no usize (the empty sequence).
RECURSIVE AddFrom(_, _, _)
AddFrom(u, i, c) ==
  IF i > Len(u) THEN (IF c = 0 THEN u ELSE <<>>)
  ELSE AddFrom([u EXCEPT ![i] = (u[i] + c) % LimbBase], i + 1, (u[i] + c) \div LimbBase)

\* The bytes after the count of a sequence case.
Body == Tail(tc.bytes)

MathBit(b, k, j) ==
  IF j \div 7 < k THEN ((b[(j \div 7) + 1] % 128) \div 2^(j % 7)) % 2 ELSE 0

\* The sum of (b_i & 0x7F) * 2^(7 i) over the k bytes, modulo 2^UsizeBits:
\* its bits below UsizeBits, as limbs.
SumMod(b, k) ==
  LET RECURSIVE Limb(_, _)
      Limb(l, t) == IF t = 16 THEN 0
                    ELSE MathBit(b, k, 16 * (l - 1) + t) * 2^t + Limb(l, t + 1)
  IN [l \in 1..NLimbs |-> Limb(l, 0)]

\* The k-byte varint has a bit set at or above bit UsizeBits.
Overflows(b, k) ==
  \E j \in UsizeBits..(7 * varint_usize_max - 1) : MathBit(b, k, j) = 1

\* b starts with n bytes 0x80.
StartsWithEmptyGroups(b, n) ==
  /\ Len(b) > n
  /\ \A i \in 1..n : b[i] = 128

\* C16: a terminated varint of k <= MAX bytes decodes to the sum of its
\* groups modulo 2^64.  No overflow is reported: the only errors of the read
\* are DeserializeUnexpectedEnd and DeserializeBadVarint, and neither is
\* given for a terminated varint.  A varint of MAX bytes whose last group
\* has bits at or above bit 64 is accepted and those bits are lost, so 2^64
\* (nine bytes 0x80, then 0x02) decodes to 0, as do 0x00 and the non-minimal
\* 0x80 0x00.
C16_VarintModulo ==
  ReadVarint =>
    /\ last.vi.ok
         => /\ last.vi.read <= varint_usize_max
            /\ last.before[last.vi.read] < 128
            /\ last.vi.val[1] = SumMod(last.before, last.vi.read)
    /\ ~last.vi.ok
         => /\ last.vi.err \in {"DeserializeUnexpectedEnd", "DeserializeBadVarint"}
            /\ AllHigh(last.before)
    /\ (StartsWithEmptyGroups(last.before, varint_usize_max - 1)
          /\ last.before[varint_usize_max] = 2)
         => /\ Overflows(last.before, varint_usize_max)
            /\ last.vi.ok
            /\ last.vi.read = varint_usize_max
            /\ last.vi.val[1] = Zero(NLimbs)
    /\ (StartsWithEmptyGroups(last.before, varint_usize_max - 1)
          /\ last.before[varint_usize_max] = 3)
         => (last.vi.ok /\ last.vi.val[1] = Pow2(UsizeBits - 1))
    /\ (StartsWithEmptyGroups(last.before, 1) /\ last.before[2] = 0)
         => (last.vi.ok /\ last.vi.read = 2 /\ last.vi.val[1] = Zero(NLimbs))
    /\ (last.before # <<>> /\ last.before[1] = 0)
         => (last.vi.ok /\ last.vi.read = 1 /\ last.vi.val[1] = Zero(NLimbs))

\* The varint of 2^64, ten bytes long, was read as 0.
C16_Witness ==
  /\ ReadVarint
  /\ tc.kind = "wide"
  /\ StartsWithEmptyGroups(last.before, varint_usize_max - 1)
  /\ last.before[varint_usize_max] = 2
  /\ last.vi.ok
  /\ last.vi.val[1] = Zero(NLimbs)
  /\ last.vi.read = varint_usize_max

=============================================================================
